---- MODULE Spec2Model ----
(***************************************************************************)
(* Sliding-window rate limiter of package postfix: RatelimitToken,         *)
(* RatelimitTokenMap and RatelimitSlidingWindow.                           *)
(*                                                                         *)
(* Strings are sequences of one-character strings, so that strings.Split,  *)
(* strconv.Atoi and time.ParseDuration are computed rather than assumed.   *)
(* Times are whole seconds since an epoch that lies on a minute boundary;  *)
(* durations are whole seconds.                                            *)
(***************************************************************************)
EXTENDS Integers, Sequences, FiniteSets, TLC

VARIABLES
    now,      \* the wall clock read by time.Now()
    rsw,      \* the RatelimitSlidingWindow struct
    rlm,      \* the RatelimitTokenMap struct
    heap,     \* every RatelimitToken allocated so far, by allocation order
    frame,    \* per caller: position and locals of the call it is executing
    aborted,  \* an unrecovered panic or runtime fatal error ended the process
    hist,     \* history: the permitted requests (the completed token operations)
    calls     \* history: number of calls started

vars == <<now, rsw, rlm, heap, frame, aborted, hist, calls>>

----------------------------------------------------------------------------
(* Bounds of the model *)

MaxRecips == 1     \* recipient counts tried are 0..MaxRecips
MaxCalls == 2      \* calls started in one behaviour
MaxProcs == 2      \* concurrent callers

(* Program constants *)

DefaultLimit == 120   \* rsw.defaultLimit = 120
Minute == 60          \* time.Minute, in seconds

Procs == 1..MaxProcs
Recips == 0..MaxRecips

\* The instants at which the clock is observed: around the minute boundaries.
Instants == {0, 59, 60, 61}

\* Sender addresses tried: two of one domain, one of another domain, one
\* without "@" and one with two "@".
SA == <<"a", "@", "x">>
SB == <<"b", "@", "x">>
SW == <<"c", "@", "w">>
SN == <<"n">>
SM == <<"a", "@", "x", "@", "y">>
Senders == {SA, SB, SW}

----------------------------------------------------------------------------
(* Strings *)

Digits == <<"0", "1", "2", "3", "4", "5", "6", "7", "8", "9">>

IsDigit(c) == \E i \in 1..10 : Digits[i] = c

DigitVal(c) == (CHOOSE i \in 1..10 : Digits[i] = c) - 1

\* Index of the first occurrence of character c in s, 0 when there is none.
RECURSIVE IndexFrom(_, _, _)
IndexFrom(s, c, i) ==
    IF i > Len(s) THEN 0
    ELSE IF s[i] = c THEN i
    ELSE IndexFrom(s, c, i + 1)

\* strings.Split(s, sep) for a one-character separator: the parts between
\* the occurrences of sep, in order; a string without sep is its only part.
RECURSIVE Split(_, _)
Split(s, sep) ==
    LET i == IndexFrom(s, sep, 1) IN
    IF i = 0 THEN <<s>>
    ELSE <<SubSeq(s, 1, i - 1)>> \o Split(SubSeq(s, i + 1, Len(s)), sep)

\* Value of a non-empty string of decimal digits.
RECURSIVE DecValue(_)
DecValue(s) ==
    IF Len(s) = 0 THEN 0
    ELSE 10 * DecValue(SubSeq(s, 1, Len(s) - 1)) + DigitVal(s[Len(s)])

\* An optional sign followed by one or more decimal digits.
IsSignedDecimal(s) ==
    LET body == IF Len(s) > 0 /\ s[1] \in {"+", "-"} THEN Tail(s) ELSE s IN
    /\ Len(body) > 0
    /\ \A i \in 1..Len(body) : IsDigit(body[i])

SignedValue(s) ==
    IF s[1] = "-" THEN 0 - DecValue(Tail(s))
    ELSE IF s[1] = "+" THEN DecValue(Tail(s))
    ELSE DecValue(s)

\* strconv.Atoi: (value, err); err = TRUE stands for a non-nil error.
Atoi(s) ==
    IF IsSignedDecimal(s) THEN [val |-> SignedValue(s), err |-> FALSE]
    ELSE [val |-> 0, err |-> TRUE]

\* time.ParseDuration(s) for strings over digits, signs, "x" and a final
\* unit "s": a signed decimal number of seconds, anything else is an error
\* and yields the zero duration.
ParseDuration(s) ==
    IF /\ Len(s) > 1
       /\ s[Len(s)] = "s"
       /\ IsSignedDecimal(SubSeq(s, 1, Len(s) - 1))
    THEN [d |-> SignedValue(SubSeq(s, 1, Len(s) - 1)), err |-> FALSE]
    ELSE [d |-> 0, err |-> TRUE]

\* time.Time.Truncate(d) for times at or after the epoch.
Truncate(t, d) == t - (t % d)

----------------------------------------------------------------------------
(* MemoryMap: the override map.  Its code is not part of the sources; it   *)
(* is a lookup table from key to value whose Get reports an error for an   *)
(* absent key.                                                             *)

EmptyMap == [k \in {} |-> <<>>]

MemoryMapGet(m, k) ==
    IF k \in DOMAIN m THEN [val |-> m[k], err |-> FALSE]
    ELSE [val |-> <<>>, err |-> TRUE]

\* Override maps handed to the constructor and to the setters.
WL1 == (<<"w">> :> <<"1">>) @@ (SB :> <<"1">>)
WhiteLists == {EmptyMap, WL1}

DLOne == (<<"x">> :> <<"1">>)
DLBad == (<<"x">> :> <<"2", "x">>)
DomainLists == {EmptyMap, DLOne, DLBad}

----------------------------------------------------------------------------
(* RatelimitToken *)

EmptyTsd == [t \in {} |-> 0]

NewRatelimitToken(k) ==
    [mu |-> 0, key |-> k, tsd |-> EmptyTsd, count |-> 0, sliceCount |-> 0,
     logger |-> FALSE]

\* RecordMessage, first half of either branch: rlt.count += recips.
RecordCount(t, recips) == [t EXCEPT !.count = @ + recips]

\* Mutant: sliceCount grows with every message, new slice or not.
RecordSliceCountsAll(t, keytime, recips) ==
    IF keytime \in DOMAIN t.tsd
    THEN [t EXCEPT !.sliceCount = @ + 1,
                   !.tsd = [@ EXCEPT ![keytime] = @ + recips]]
    ELSE [t EXCEPT !.sliceCount = @ + 1,
                   !.tsd = (keytime :> recips) @@ @]

\* RecordMessage, second half: update the time slice keytime or add it.
RecordSlice(t, keytime, recips) ==
    IF keytime \in DOMAIN t.tsd
    THEN [t EXCEPT !.tsd = [@ EXCEPT ![keytime] = @ + recips]]
    ELSE [t EXCEPT !.sliceCount = @ + 1,
                   !.tsd = (keytime :> recips) @@ @]

\* The body of RecordMessage, executed under rlt.mu.
RecordMessage(t, ts, recips) ==
    RecordSlice(RecordCount(t, recips), Truncate(ts, Minute), recips)

\* Mutant: the slice that starts at the limit is expired too.
BeforeOrAt(t, lim) == t <= lim

\* time.Time.Before
Before(t, lim) == t < lim

\* One iteration of Prune's loop that finds slice b expired.
PruneSlice(t, b) ==
    [t EXCEPT !.count = @ - t.tsd[b],
              !.sliceCount = @ - 1,
              !.tsd = [x \in (DOMAIN @) \ {b} |-> @[x]]]

\* Prune's loop over the slices todo, in an arbitrary order.
RECURSIVE PruneLoop(_, _, _)
PruneLoop(t, todo, lim) ==
    IF todo = {} THEN t
    ELSE LET b == CHOOSE x \in todo : TRUE IN
         PruneLoop(IF Before(b, lim) THEN PruneSlice(t, b) ELSE t,
                   todo \ {b}, lim)

\* The body of Prune, executed under rlt.mu.
Prune(t, lim) == PruneLoop(t, DOMAIN t.tsd, lim)

\* Prune logs every slice it removes.
PruneLogs(t, lim) == \E b \in DOMAIN t.tsd : Before(b, lim)

\* Count
Count(t) == t.count

----------------------------------------------------------------------------
(* RatelimitSlidingWindow: the part of RateLimit that works on the copy of *)
(* the struct alone (lines 162-185).                                       *)

PermitAction == "action=dunno\n\n"

DeferAction(self) == "action=defer_if_permit " \o self.deferMessage \o "\n\n"

\* Mutant: the key is looked up in the domain list.
checkWhiteListWrongMap(self, k) == ~MemoryMapGet(self.domainList, k).err

checkWhiteList(self, k) == ~MemoryMapGet(self.whiteList, k).err

checkDomain(self, k) == ~MemoryMapGet(self.domainList, k).err

\* Mutant: a value that is no integer falls back to the default limit.
getDomainLimitFailOpen(self, dom) ==
    LET d == MemoryMapGet(self.domainList, dom) IN
    IF d.err THEN [val |-> 0, logs |-> TRUE]
    ELSE LET a == Atoi(d.val) IN
         IF a.err THEN [val |-> self.defaultLimit, logs |-> TRUE]
         ELSE [val |-> a.val, logs |-> FALSE]

\* getDomainLimit: the limit, and whether it wrote to the logger.
getDomainLimit(self, dom) ==
    LET d == MemoryMapGet(self.domainList, dom) IN
    IF d.err THEN [val |-> 0, logs |-> TRUE]
    ELSE LET a == Atoi(d.val) IN
         IF a.err THEN [val |-> 0, logs |-> TRUE]
         ELSE [val |-> a.val, logs |-> FALSE]

\* domain := "" unless the split has more than one element, then elems[1].
SenderDomain(sender) ==
    LET elems == Split(sender, "@") IN
    IF Len(elems) > 1 THEN elems[2] ELSE <<>>

\* Mutant: a zero recipient count is left as it is.
NormalRecipsKept(recips) == recips

\* if recips == 0 { recips++ }
NormalRecips(recips) == IF recips = 0 THEN 1 ELSE recips

\* Mutant: the comparison taken as "at or over the limit".
OverLimitAtLimit(tcount, messagelimit) == tcount >= messagelimit

\* if tcount > messagelimit
OverLimit(tcount, messagelimit) == tcount > messagelimit

\* Mutant: the message is recorded before the limit is checked.
DeferredTokenRecorded(t, ts, recips) == RecordMessage(t, ts, recips)

\* The token as the defer branch (lines 196-199) leaves it: it returns
\* before RecordMessage is reached.
DeferredToken(t, ts, recips) == t

\* Lines 162-185: what the call knows before it asks for the token.
\*   panics: a Println on the nil logger was reached
\*   whitelisted: the call returns the permit action at line 177 or 181
RateLimitHead(self, sender, recips0) ==
    LET domain == SenderDomain(sender)
        recips == NormalRecips(recips0)
        white == checkWhiteList(self, sender) \/ checkWhiteList(self, domain)
        lim == IF checkDomain(self, domain)
               THEN getDomainLimit(self, domain)
               ELSE [val |-> self.defaultLimit, logs |-> FALSE]
    IN  [domain |-> domain,
         recips |-> recips,
         whitelisted |-> white,
         messagelimit |-> IF white THEN self.defaultLimit ELSE lim.val,
         panics |-> ~self.logger /\ (recips0 = 0 \/ white \/ lim.logs)]

----------------------------------------------------------------------------
(* State after construction *)

\* A caller that is not inside a call.
IdleFrame ==
    [pc |-> "idle", sender |-> <<>>, recips0 |-> 0, recips |-> 0,
     self |-> <<>>, domain |-> <<>>, messagelimit |-> 0, rlmLogger |-> FALSE,
     token |-> 0, tnow |-> 0, tcount |-> 0, result |-> "",
     lim |-> 0, todo |-> {}, direct |-> FALSE, l |-> 0,
     atCall |-> <<>>, afterPrune |-> <<>>]

\* NewRatelimitSlidingWindow(w, d, t)
NewRatelimitSlidingWindow(w, d) ==
    [mu |-> 0, defaultLimit |-> DefaultLimit, deferMessage |-> "",
     interval |-> 0, whiteList |-> w, domainList |-> d, logger |-> FALSE]

\* NewRatelimitTokenMap()
NewRatelimitTokenMap ==
    [mu |-> 0, tokens |-> EmptyMap, logger |-> FALSE]

\* The controller is constructed over empty override maps and a new
\* registry; SetWhiteList and SetDomainList install the loaded maps.
Init ==
    /\ now = 0
    /\ rsw = NewRatelimitSlidingWindow(EmptyMap, EmptyMap)
    /\ rlm = NewRatelimitTokenMap
    /\ heap = <<>>
    /\ frame = [p \in Procs |-> IdleFrame]
    /\ aborted = FALSE
    /\ hist = <<>>
    /\ calls = 0

----------------------------------------------------------------------------
(* The clock *)

Tick ==
    /\ ~aborted
    /\ \E t \in Instants : t > now /\ now' = t
    /\ UNCHANGED <<rsw, rlm, heap, frame, aborted, hist, calls>>

----------------------------------------------------------------------------
(* Setters.  Each holds rsw.mu (rlm.mu, rlt.mu) from its first statement   *)
(* to its return.  The controller and the registry are configured before   *)
(* the first request is served.                                            *)

Configuring == calls = 0

Limits == {1}
IntervalInputs == {<<"6", "0">>, <<"x">>}
DeferMessages == {"slow down"}

SetDefaultLimit(l) ==
    /\ ~aborted /\ rsw.mu = 0
    /\ Configuring
    /\ rsw' = [rsw EXCEPT !.defaultLimit = l]
    /\ UNCHANGED <<now, rlm, heap, frame, aborted, hist, calls>>

\* d, err := time.ParseDuration(i + "s"); a failure is logged; in either
\* case rsw.interval = d * -1.
SetInterval(i) ==
    LET r == ParseDuration(i \o <<"s">>) IN
    /\ ~aborted /\ rsw.mu = 0
    /\ Configuring
    /\ IF r.err /\ ~rsw.logger
       THEN aborted' = TRUE /\ UNCHANGED rsw
       ELSE rsw' = [rsw EXCEPT !.interval = r.d * (0 - 1)] /\ UNCHANGED aborted
    /\ UNCHANGED <<now, rlm, heap, frame, hist, calls>>

SetLogger ==
    /\ ~aborted /\ rsw.mu = 0
    /\ Configuring
    /\ rsw' = [rsw EXCEPT !.logger = TRUE]
    /\ UNCHANGED <<now, rlm, heap, frame, aborted, hist, calls>>

SetLoggerMap ==
    /\ ~aborted /\ rlm.mu = 0
    /\ Configuring
    /\ rlm' = [rlm EXCEPT !.logger = TRUE]
    /\ UNCHANGED <<now, rsw, heap, frame, aborted, hist, calls>>

SetLoggerToken(t) ==
    /\ ~aborted /\ heap[t].mu = 0
    /\ heap' = [heap EXCEPT ![t].logger = TRUE]
    /\ UNCHANGED <<now, rsw, rlm, frame, aborted, hist, calls>>

SetDeferMessage(m) ==
    /\ ~aborted /\ rsw.mu = 0
    /\ Configuring
    /\ rsw' = [rsw EXCEPT !.deferMessage = m]
    /\ UNCHANGED <<now, rlm, heap, frame, aborted, hist, calls>>

SetWhiteList(wl) ==
    /\ ~aborted /\ rsw.mu = 0
    /\ Configuring
    /\ rsw' = [rsw EXCEPT !.whiteList = wl]
    /\ UNCHANGED <<now, rlm, heap, frame, aborted, hist, calls>>

SetDomainList(d) ==
    /\ ~aborted /\ rsw.mu = 0
    /\ Configuring
    /\ rsw' = [rsw EXCEPT !.domainList = d]
    /\ UNCHANGED <<now, rlm, heap, frame, aborted, hist, calls>>

----------------------------------------------------------------------------
(* RateLimit, step by step.  The receiver is a value: the call works on    *)
(* its own copy of the struct, mutex included.                             *)

\* The call: the struct is copied into the receiver.
RateLimitCall(p, sender, recips) ==
    /\ ~aborted
    /\ frame[p].pc = "idle"
    /\ calls' = calls + 1
    /\ frame' = [frame EXCEPT ![p] =
          [IdleFrame EXCEPT !.pc = "lock", !.sender = sender,
                            !.recips0 = recips, !.recips = recips,
                            !.self = rsw,
                            !.atCall = [heap |-> heap, tokens |-> rlm.tokens,
                                        defaultLimit |-> rsw.defaultLimit]]]
    /\ UNCHANGED <<now, rsw, rlm, heap, aborted, hist>>

\* One of the MaxCalls calls of a behaviour.
Call(p, sender, recips) ==
    /\ calls < MaxCalls
    /\ RateLimitCall(p, sender, recips)

\* rsw.mu.Lock() on the copy, then lines 162-185.
Enter(p) ==
    LET f == frame[p]
        h == RateLimitHead(f.self, f.sender, f.recips0)
    IN
    /\ ~aborted
    /\ f.pc = "lock"
    /\ f.self.mu = 0
    /\ IF h.panics
       THEN aborted' = TRUE /\ UNCHANGED frame
       ELSE /\ UNCHANGED aborted
            /\ frame' = [frame EXCEPT ![p] =
                  [f EXCEPT !.self.mu = p,
                            !.domain = h.domain,
                            !.recips = h.recips,
                            !.messagelimit = h.messagelimit,
                            !.result = IF h.whitelisted THEN PermitAction ELSE "",
                            !.pc = IF h.whitelisted THEN "done" ELSE "token"]]
    /\ UNCHANGED <<now, rsw, rlm, heap, hist, calls>>

\* Token(k): the receiver is a value too, so rlm.mu.Lock() locks the copy
\* made at the call (free unless rlm.mu was held at that moment); the map
\* itself is shared.  The lookup.
TokenLookup(p) ==
    LET f == frame[p] IN
    /\ ~aborted
    /\ f.pc = "token"
    /\ rlm.mu = 0
    /\ frame' = [frame EXCEPT ![p] =
          IF f.sender \in DOMAIN rlm.tokens
          THEN [f EXCEPT !.token = rlm.tokens[f.sender],
                         !.pc = IF f.direct THEN "done" ELSE "prune"]
          ELSE [f EXCEPT !.rlmLogger = rlm.logger, !.pc = "insert"]]
    /\ UNCHANGED <<now, rsw, rlm, heap, aborted, hist, calls>>

\* Token(k), else branch: NewRatelimitToken, SetLogger, rlm.tokens[k] = t.
TokenInsert(p) ==
    LET f == frame[p]
        t == [NewRatelimitToken(f.sender) EXCEPT !.logger = f.rlmLogger]
        id == Len(heap) + 1
    IN
    /\ ~aborted
    /\ f.pc = "insert"
    /\ heap' = Append(heap, t)
    /\ rlm' = [rlm EXCEPT !.tokens =
                  [k \in (DOMAIN @) \cup {f.sender} |->
                      IF k = f.sender THEN id ELSE @[k]]]
    /\ frame' = [frame EXCEPT ![p] =
          [f EXCEPT !.token = id,
                    !.pc = IF f.direct THEN "done" ELSE "prune"]]
    /\ UNCHANGED <<now, rsw, aborted, hist, calls>>

\* now := time.Now(); limit := now.Add(rsw.interval); token.Prune(limit)
PruneStep(p) ==
    LET f == frame[p]
        t == heap[f.token]
        limit == now + f.self.interval
    IN
    /\ ~aborted
    /\ f.pc = "prune"
    /\ t.mu = 0
    /\ IF PruneLogs(t, limit) /\ ~t.logger
       THEN aborted' = TRUE /\ UNCHANGED <<heap, frame>>
       ELSE /\ UNCHANGED aborted
            /\ heap' = [heap EXCEPT ![f.token] = Prune(t, limit)]
            /\ frame' = [frame EXCEPT ![p] =
                  [f EXCEPT !.tnow = now, !.pc = "count",
                            !.afterPrune = Prune(t, limit)]]
    /\ UNCHANGED <<now, rsw, rlm, hist, calls>>

\* tcount := token.Count() + recips, and the comparison with messagelimit.
CountStep(p) ==
    LET f == frame[p]
        t == heap[f.token]
        tcount == Count(t) + f.recips
    IN
    /\ ~aborted
    /\ f.pc = "count"
    /\ t.mu = 0
    /\ IF OverLimit(tcount, f.messagelimit)
       THEN IF ~f.self.logger
            THEN aborted' = TRUE /\ UNCHANGED <<heap, frame>>
            ELSE /\ UNCHANGED aborted
                 /\ heap' = [heap EXCEPT ![f.token] =
                                 DeferredToken(t, f.tnow, f.recips)]
                 /\ frame' = [frame EXCEPT ![p] =
                       [f EXCEPT !.tcount = tcount, !.pc = "done",
                                 !.result = DeferAction(f.self)]]
       ELSE /\ UNCHANGED <<aborted, heap>>
            /\ frame' = [frame EXCEPT ![p] =
                  [f EXCEPT !.tcount = tcount, !.pc = "record"]]
    /\ UNCHANGED <<now, rsw, rlm, hist, calls>>

\* Mutant: the message is recorded into the token of every address of the
\* sender's domain.
RecordStepDomain(p) ==
    LET f == frame[p]
        t == heap[f.token]
    IN
    /\ ~aborted
    /\ f.pc = "record"
    /\ t.mu = 0
    /\ IF ~t.logger \/ ~f.self.logger
       THEN aborted' = TRUE /\ UNCHANGED <<heap, frame, hist>>
       ELSE /\ UNCHANGED aborted
            /\ heap' = [i \in 1..Len(heap) |->
                           IF SenderDomain(heap[i].key) = f.domain
                           THEN RecordMessage(heap[i], f.tnow, f.recips)
                           ELSE heap[i]]
            /\ hist' = Append(hist, [sender |-> f.sender,
                                     time |-> f.tnow,
                                     recips |-> f.recips,
                                     limit |-> f.messagelimit])
            /\ frame' = [frame EXCEPT ![p] =
                  [f EXCEPT !.pc = "done", !.result = PermitAction]]
    /\ UNCHANGED <<now, rsw, rlm, calls>>

\* token.RecordMessage(now, recips), the final log line and the return.
RecordStep(p) ==
    LET f == frame[p]
        t == heap[f.token]
    IN
    /\ ~aborted
    /\ f.pc = "record"
    /\ t.mu = 0
    /\ IF ~t.logger
       THEN aborted' = TRUE /\ UNCHANGED <<heap, frame, hist>>
       ELSE /\ heap' = [heap EXCEPT ![f.token] =
                           RecordMessage(t, f.tnow, f.recips)]
            /\ IF ~f.self.logger
               THEN aborted' = TRUE /\ UNCHANGED <<frame, hist>>
               ELSE /\ UNCHANGED aborted
                    /\ hist' = Append(hist, [sender |-> f.sender,
                                              time |-> f.tnow,
                                              recips |-> f.recips,
                                              limit |-> f.messagelimit])
                    /\ frame' = [frame EXCEPT ![p] =
                          [f EXCEPT !.pc = "done", !.result = PermitAction]]
    /\ UNCHANGED <<now, rsw, rlm, calls>>

\* The deferred rsw.mu.Unlock() of the copy, and the return to the caller.
Return(p) ==
    /\ ~aborted
    /\ frame[p].pc = "done"
    /\ frame' = [frame EXCEPT ![p] = IdleFrame]
    /\ UNCHANGED <<now, rsw, rlm, heap, aborted, hist, calls>>

----------------------------------------------------------------------------
(* Spec: one caller, calls executed one at a time; the configuration is    *)
(* set up through the setters before the first call and fixed afterwards.  *)

Next ==
    \/ Tick
    \/ \E l \in Limits : SetDefaultLimit(l)
    \/ \E i \in IntervalInputs : SetInterval(i)
    \/ SetLogger
    \/ SetLoggerMap
    \/ \E m \in DeferMessages : SetDeferMessage(m)
    \/ \E wl \in WhiteLists : SetWhiteList(wl)
    \/ \E d \in DomainLists : SetDomainList(d)
    \/ \E s \in Senders, r \in Recips : Call(1, s, r)
    \/ Enter(1)
    \/ TokenLookup(1)
    \/ TokenInsert(1)
    \/ PruneStep(1)
    \/ CountStep(1)
    \/ RecordStep(1)
    \/ Return(1)

Spec == Init /\ [][Next]_vars

----------------------------------------------------------------------------
(* SpecConc: MaxProcs callers whose RateLimit calls interleave, under a    *)
(* fixed configuration: the controller after SetLogger, SetInterval("60"), *)
(* SetDeferMessage, SetWhiteList, SetDomainList and possibly               *)
(* SetDefaultLimit, the registry after SetLogger.                          *)

InitConc ==
    /\ now = 0
    /\ \E w \in WhiteLists, d \in DomainLists, l \in Limits \cup {DefaultLimit} :
          rsw = [NewRatelimitSlidingWindow(w, d) EXCEPT
                    !.logger = TRUE, !.interval = 0 - 60,
                    !.deferMessage = "slow down", !.defaultLimit = l]
    /\ rlm = [NewRatelimitTokenMap EXCEPT !.logger = TRUE]
    /\ heap = <<>>
    /\ frame = [p \in Procs |-> IdleFrame]
    /\ aborted = FALSE
    /\ hist = <<>>
    /\ calls = 0

NextConc ==
    \/ Tick
    \/ \E p \in Procs, s \in Senders, r \in Recips : Call(p, s, r)
    \/ \E p \in Procs : Enter(p)
    \/ \E p \in Procs : TokenLookup(p)
    \/ \E p \in Procs : TokenInsert(p)
    \/ \E p \in Procs : PruneStep(p)
    \/ \E p \in Procs : CountStep(p)
    \/ \E p \in Procs : RecordStep(p)
    \/ \E p \in Procs : Return(p)

SpecConc == InitConc /\ [][NextConc]_vars

----------------------------------------------------------------------------
(* SpecRegistry: MaxProcs callers of the registry's Token(k).              *)

TokenCall(p, k) ==
    /\ ~aborted
    /\ frame[p].pc = "idle"
    /\ calls < MaxCalls
    /\ calls' = calls + 1
    /\ frame' = [frame EXCEPT ![p] =
          [IdleFrame EXCEPT !.pc = "token", !.sender = k, !.direct = TRUE]]
    /\ UNCHANGED <<now, rsw, rlm, heap, aborted, hist>>

NextRegistry ==
    \/ SetLoggerMap
    \/ \E p \in Procs, k \in Senders : TokenCall(p, k)
    \/ \E p \in Procs : TokenLookup(p)
    \/ \E p \in Procs : TokenInsert(p)
    \/ \E p \in Procs : Return(p)

SpecRegistry == Init /\ [][NextRegistry]_vars

----------------------------------------------------------------------------
(* SpecToken: MaxProcs callers of RecordMessage and Prune on one token     *)
(* made by NewRatelimitToken, statement by statement.                      *)

MaxOps == 3        \* operations started in one behaviour of SpecToken, SpecStale

\* Timestamps recorded and limits pruned at: either side of a minute
\* boundary and the boundary itself.
RecordTimes == {59, 60, 61}
Cutoffs == {0, 1, 60, 61}

\* Mutant: the lock is taken whether it is free or not.
TryLockAlways(mu) == TRUE

\* sync.Mutex.Lock returns once the mutex is free.
TryLock(mu) == mu = 0

InitToken ==
    /\ now = 0
    /\ rsw = NewRatelimitSlidingWindow(EmptyMap, EmptyMap)
    /\ rlm = NewRatelimitTokenMap
    /\ heap = <<NewRatelimitToken(SA)>>
    /\ frame = [p \in Procs |-> IdleFrame]
    /\ aborted = FALSE
    /\ hist = <<>>
    /\ calls = 0

RecordCall(p, ts, recips) ==
    /\ ~aborted
    /\ frame[p].pc = "idle"
    /\ calls < MaxOps
    /\ calls' = calls + 1
    /\ frame' = [frame EXCEPT ![p] =
          [IdleFrame EXCEPT !.pc = "rm_lock", !.token = 1, !.tnow = ts,
                            !.recips = recips, !.direct = TRUE]]
    /\ UNCHANGED <<now, rsw, rlm, heap, aborted, hist>>

PruneCall(p, lim) ==
    /\ ~aborted
    /\ frame[p].pc = "idle"
    /\ calls < MaxOps
    /\ calls' = calls + 1
    /\ frame' = [frame EXCEPT ![p] =
          [IdleFrame EXCEPT !.pc = "pr_lock", !.token = 1, !.lim = lim,
                            !.direct = TRUE]]
    /\ UNCHANGED <<now, rsw, rlm, heap, aborted, hist>>

\* rlt.mu.Lock() of RecordMessage, and its log line.
RecordLock(p) ==
    LET f == frame[p] IN
    /\ ~aborted
    /\ f.pc = "rm_lock"
    /\ TryLock(heap[f.token].mu)
    /\ heap' = [heap EXCEPT ![f.token].mu = p]
    /\ IF ~heap[f.token].logger
       THEN aborted' = TRUE /\ UNCHANGED frame
       ELSE UNCHANGED aborted /\ frame' = [frame EXCEPT ![p].pc = "rm_count"]
    /\ UNCHANGED <<now, rsw, rlm, hist, calls>>

\* rlt.count += recips
RecordCountStep(p) ==
    LET f == frame[p] IN
    /\ ~aborted
    /\ f.pc = "rm_count"
    /\ heap' = [heap EXCEPT ![f.token] = RecordCount(@, f.recips)]
    /\ frame' = [frame EXCEPT ![p].pc = "rm_slice"]
    /\ UNCHANGED <<now, rsw, rlm, aborted, hist, calls>>

\* rlt.tsd[keytime] = ...
RecordSliceStep(p) ==
    LET f == frame[p] IN
    /\ ~aborted
    /\ f.pc = "rm_slice"
    /\ heap' = [heap EXCEPT ![f.token] =
                   RecordSlice(@, Truncate(f.tnow, Minute), f.recips)]
    /\ frame' = [frame EXCEPT ![p].pc = "rm_unlock"]
    /\ UNCHANGED <<now, rsw, rlm, aborted, hist, calls>>

\* The deferred rlt.mu.Unlock() of RecordMessage.
RecordUnlock(p) ==
    LET f == frame[p] IN
    /\ ~aborted
    /\ f.pc = "rm_unlock"
    /\ heap' = [heap EXCEPT ![f.token].mu = 0]
    /\ hist' = Append(hist, [op |-> "record", ts |-> f.tnow, n |-> f.recips])
    /\ frame' = [frame EXCEPT ![p] = IdleFrame]
    /\ UNCHANGED <<now, rsw, rlm, aborted, calls>>

\* rlt.mu.Lock() of Prune; the loop ranges over the slices of the map.
PruneLock(p) ==
    LET f == frame[p] IN
    /\ ~aborted
    /\ f.pc = "pr_lock"
    /\ TryLock(heap[f.token].mu)
    /\ heap' = [heap EXCEPT ![f.token].mu = p]
    /\ frame' = [frame EXCEPT ![p].pc = "pr_loop",
                              ![p].todo = DOMAIN heap[f.token].tsd]
    /\ UNCHANGED <<now, rsw, rlm, aborted, hist, calls>>

\* One iteration of the loop, over any slice not yet visited.
PruneIter(p) ==
    LET f == frame[p]
        t == heap[f.token]
    IN
    /\ ~aborted
    /\ f.pc = "pr_loop"
    /\ \E b \in f.todo :
          IF b \in DOMAIN t.tsd /\ Before(b, f.lim)
          THEN IF ~t.logger
               THEN aborted' = TRUE /\ UNCHANGED <<heap, frame>>
               ELSE /\ UNCHANGED aborted
                    /\ heap' = [heap EXCEPT ![f.token] = PruneSlice(t, b)]
                    /\ frame' = [frame EXCEPT ![p].todo = @ \ {b}]
          ELSE /\ UNCHANGED <<aborted, heap>>
               /\ frame' = [frame EXCEPT ![p].todo = @ \ {b}]
    /\ UNCHANGED <<now, rsw, rlm, hist, calls>>

\* The loop is over: the deferred rlt.mu.Unlock() of Prune.
PruneUnlock(p) ==
    LET f == frame[p] IN
    /\ ~aborted
    /\ f.pc = "pr_loop"
    /\ f.todo = {}
    /\ heap' = [heap EXCEPT ![f.token].mu = 0]
    /\ hist' = Append(hist, [op |-> "prune", lim |-> f.lim])
    /\ frame' = [frame EXCEPT ![p] = IdleFrame]
    /\ UNCHANGED <<now, rsw, rlm, aborted, calls>>

NextToken ==
    \/ SetLoggerToken(1)
    \/ \E p \in Procs, ts \in RecordTimes, r \in Recips : RecordCall(p, ts, r)
    \/ \E p \in Procs, lim \in Cutoffs : PruneCall(p, lim)
    \/ \E p \in Procs : RecordLock(p)
    \/ \E p \in Procs : RecordCountStep(p)
    \/ \E p \in Procs : RecordSliceStep(p)
    \/ \E p \in Procs : RecordUnlock(p)
    \/ \E p \in Procs : PruneLock(p)
    \/ \E p \in Procs : PruneIter(p)
    \/ \E p \in Procs : PruneUnlock(p)

SpecToken == InitToken /\ [][NextToken]_vars

----------------------------------------------------------------------------
(* SpecSetter: caller 1 calls RateLimit while caller 2 calls               *)
(* SetDefaultLimit, statement by statement with rsw.mu, on a controller    *)
(* and registry with loggers, interval 60 s and empty lists.               *)

InitSetter ==
    /\ now = 0
    /\ rsw = [NewRatelimitSlidingWindow(EmptyMap, EmptyMap) EXCEPT
                 !.logger = TRUE, !.interval = 0 - 60,
                 !.deferMessage = "slow down"]
    /\ rlm = [NewRatelimitTokenMap EXCEPT !.logger = TRUE]
    /\ heap = <<>>
    /\ frame = [p \in Procs |-> IdleFrame]
    /\ aborted = FALSE
    /\ hist = <<>>
    /\ calls = 0

SetDefaultLimitCall(p, l) ==
    /\ ~aborted
    /\ frame[p].pc = "idle"
    /\ frame' = [frame EXCEPT ![p] =
          [IdleFrame EXCEPT !.pc = "sdl_lock", !.l = l, !.direct = TRUE]]
    /\ UNCHANGED <<now, rsw, rlm, heap, aborted, hist, calls>>

\* rsw.mu.Lock() of SetDefaultLimit: the receiver is a pointer, the mutex
\* is the controller's own.
SetDefaultLimitLock(p) ==
    /\ ~aborted
    /\ frame[p].pc = "sdl_lock"
    /\ TryLock(rsw.mu)
    /\ rsw' = [rsw EXCEPT !.mu = p]
    /\ frame' = [frame EXCEPT ![p].pc = "sdl_write"]
    /\ UNCHANGED <<now, rlm, heap, aborted, hist, calls>>

\* Mutant: the setter also empties the tokens.
SetDefaultLimitWriteClearing(p) ==
    /\ ~aborted
    /\ frame[p].pc = "sdl_write"
    /\ rsw' = [rsw EXCEPT !.defaultLimit = frame[p].l]
    /\ heap' = [t \in 1..Len(heap) |->
                    [heap[t] EXCEPT !.tsd = EmptyTsd, !.count = 0,
                                    !.sliceCount = 0]]
    /\ frame' = [frame EXCEPT ![p].pc = "sdl_unlock"]
    /\ UNCHANGED <<now, rlm, aborted, hist, calls>>

\* rsw.defaultLimit = l
SetDefaultLimitWrite(p) ==
    /\ ~aborted
    /\ frame[p].pc = "sdl_write"
    /\ rsw' = [rsw EXCEPT !.defaultLimit = frame[p].l]
    /\ frame' = [frame EXCEPT ![p].pc = "sdl_unlock"]
    /\ UNCHANGED <<now, rlm, heap, aborted, hist, calls>>

\* The deferred rsw.mu.Unlock() of SetDefaultLimit.
SetDefaultLimitUnlock(p) ==
    /\ ~aborted
    /\ frame[p].pc = "sdl_unlock"
    /\ rsw' = [rsw EXCEPT !.mu = 0]
    /\ frame' = [frame EXCEPT ![p] = IdleFrame]
    /\ UNCHANGED <<now, rlm, heap, aborted, hist, calls>>

NextSetter ==
    \/ \E l \in Limits : SetDefaultLimitCall(2, l)
    \/ SetDefaultLimitLock(2)
    \/ SetDefaultLimitWrite(2)
    \/ SetDefaultLimitUnlock(2)
    \/ Tick
    \/ \E s \in Senders, r \in Recips : Call(1, s, r)
    \/ Enter(1)
    \/ TokenLookup(1)
    \/ TokenInsert(1)
    \/ PruneStep(1)
    \/ CountStep(1)
    \/ RecordStep(1)
    \/ Return(1)

SpecSetter == InitSetter /\ [][NextSetter]_vars

\* Fair scheduling: a call that can take a step eventually takes one.
RateLimitProgress ==
    \/ Enter(1) \/ TokenLookup(1) \/ TokenInsert(1)
    \/ PruneStep(1) \/ CountStep(1) \/ RecordStep(1) \/ Return(1)

SetDefaultLimitProgress ==
    \/ SetDefaultLimitLock(2) \/ SetDefaultLimitWrite(2)
    \/ SetDefaultLimitUnlock(2)

SpecSetterFair ==
    /\ SpecSetter
    /\ WF_vars(RateLimitProgress)
    /\ WF_vars(SetDefaultLimitProgress)

----------------------------------------------------------------------------
(* SpecStale: MaxProcs callers whose RateLimit calls for one sender        *)
(* interleave while the clock advances by whole minutes, on the            *)
(* controller of SpecSetter (loggers, interval 60 s, empty lists).         *)

Minutes == {0, 60, 120}

TickMinute ==
    /\ ~aborted
    /\ \E t \in Minutes : t > now /\ now' = t
    /\ UNCHANGED <<rsw, rlm, heap, frame, aborted, hist, calls>>

\* One of the MaxOps calls of a behaviour.
CallStale(p, sender, recips) ==
    /\ calls < MaxOps
    /\ RateLimitCall(p, sender, recips)

NextStale ==
    \/ TickMinute
    \/ \E p \in Procs : CallStale(p, SA, 1)
    \/ \E p \in Procs : Enter(p)
    \/ \E p \in Procs : TokenLookup(p)
    \/ \E p \in Procs : TokenInsert(p)
    \/ \E p \in Procs : PruneStep(p)
    \/ \E p \in Procs : CountStep(p)
    \/ \E p \in Procs : RecordStep(p)
    \/ \E p \in Procs : Return(p)

SpecStale == InitSetter /\ [][NextStale]_vars

----------------------------------------------------------------------------
(* SpecTwin: one caller sends the same timed requests of one sender to     *)
(* two controllers with the same limits: rsw, configured through           *)
(* SetDefaultLimit and SetInterval, and a twin that differs from it in     *)
(* the interval only, set by SetInterval("60").  heap[1] is the sender's   *)
(* token in rsw, heap[2] its token in the twin.                            *)

\* RateLimit from now := time.Now() to the return (lines 189-204), executed
\* without interleaving on token t.
RateLimitTail(t, interval, messagelimit, tnow, recips) ==
    LET pruned == Prune(t, tnow + interval)
        tcount == Count(pruned) + recips
    IN  IF OverLimit(tcount, messagelimit)
        THEN [token |-> DeferredToken(pruned, tnow, recips), permit |-> FALSE]
        ELSE [token |-> RecordMessage(pruned, tnow, recips), permit |-> TRUE]

\* The interval after SetInterval("60").
TwinInterval == ParseDuration(<<"6", "0", "s">>).d * (0 - 1)

InitTwin ==
    /\ now = 0
    /\ rsw = [NewRatelimitSlidingWindow(EmptyMap, EmptyMap) EXCEPT
                 !.logger = TRUE]
    /\ rlm = [NewRatelimitTokenMap EXCEPT !.logger = TRUE]
    /\ heap = <<[NewRatelimitToken(SA) EXCEPT !.logger = TRUE],
                [NewRatelimitToken(SA) EXCEPT !.logger = TRUE]>>
    /\ frame = [p \in Procs |-> IdleFrame]
    /\ aborted = FALSE
    /\ hist = <<>>
    /\ calls = 0

\* RateLimit(sender, recips) on rsw and on its twin.
TwinRequest(sender, recips0) ==
    LET h == RateLimitHead(rsw, sender, recips0)
        a == RateLimitTail(heap[1], rsw.interval, h.messagelimit, now, h.recips)
        b == RateLimitTail(heap[2], TwinInterval, h.messagelimit, now, h.recips)
    IN
    /\ ~aborted
    /\ calls < MaxOps
    /\ calls' = calls + 1
    /\ heap' = <<a.token, b.token>>
    /\ hist' = Append(hist, [sender |-> sender, time |-> now,
                             recips |-> h.recips, limit |-> h.messagelimit,
                             permit |-> a.permit, twin |-> b.permit])
    /\ UNCHANGED <<now, rsw, rlm, frame, aborted>>

NextTwin ==
    \/ Tick
    \/ \E l \in Limits : SetDefaultLimit(l)
    \/ \E i \in IntervalInputs : SetInterval(i)
    \/ \E r \in Recips : TwinRequest(SA, r)

SpecTwin == InitTwin /\ [][NextTwin]_vars

----------------------------------------------------------------------------
(* SpecSenders: one caller, calls executed one at a time under a fixed     *)
(* configuration, for the senders of Spec, a sender without "@" and a      *)
(* sender with two "@".                                                    *)

AllSenders == Senders \cup {SN, SM}

NextSenders ==
    \/ Tick
    \/ \E s \in AllSenders, r \in Recips : Call(1, s, r)
    \/ Enter(1)
    \/ TokenLookup(1)
    \/ TokenInsert(1)
    \/ PruneStep(1)
    \/ CountStep(1)
    \/ RecordStep(1)
    \/ Return(1)

SpecSenders == InitConc /\ [][NextSenders]_vars

----------------------------------------------------------------------------
(* Vocabulary of the properties *)

\* Sum of f over the finite set S of its arguments.
RECURSIVE SumOver(_, _)
SumOver(f, S) ==
    IF S = {} THEN 0
    ELSE LET x == CHOOSE y \in S : TRUE IN f[x] + SumOver(f, S \ {x})

IsDefer(result) == result = "action=defer_if_permit " \o rsw.deferMessage \o "\n\n"

IsPermit(result) == result = "action=dunno\n\n"

\* The address or its domain is in the white list.
Whitelisted(sender) ==
    \/ sender \in DOMAIN rsw.whiteList
    \/ SenderDomain(sender) \in DOMAIN rsw.whiteList

\* A RateLimit call of p has got past line 185 or returned.
InCall(p) == frame[p].pc \notin {"idle", "lock"} /\ ~frame[p].direct

Returned(p) == frame[p].pc = "done" /\ ~frame[p].direct

\* The sender's token as it was when the call was made (a sender without a
\* token has no slices).
SlicesAtCall(f) ==
    IF f.sender \in DOMAIN f.atCall.tokens
    THEN f.atCall.heap[f.atCall.tokens[f.sender]].tsd
    ELSE EmptyTsd

\* The slices of the call's sender at or after now - interval.
LiveSlices(f) ==
    {b \in DOMAIN SlicesAtCall(f) : b >= f.tnow + rsw.interval}

\* The token total after pruning at now - interval.
TotalAfterPruning(f) == SumOver(SlicesAtCall(f), LiveSlices(f))

----------------------------------------------------------------------------
(* C1.  Quota per window: with a fixed configuration, an interval I > 0    *)
(* and calls executed one at a time, for every permitted request of a      *)
(* sender at time T, the recipient counts of that sender's permitted       *)
(* requests at times in (T - I, T] add up to at most the limit.            *)

RECURSIVE WindowSum(_, _)
WindowSum(j, i) ==
    IF i = 0 THEN 0
    ELSE WindowSum(j, i - 1) +
         (IF /\ hist[i].sender = hist[j].sender
             /\ hist[i].time > hist[j].time + rsw.interval
             /\ hist[i].time <= hist[j].time
          THEN hist[i].recips ELSE 0)

C1_QuotaPerWindow ==
    rsw.interval < 0 =>
        \A j \in 1..Len(hist) : WindowSum(j, j) <= hist[j].limit

----------------------------------------------------------------------------
(* C2.  Atomic check-then-record: the controller lock serialises the       *)
(* prune, count, compare, record sequences of concurrent calls, so that no *)
(* two calls pass the check on the same stale count and the token total of *)
(* a sender that is not whitelisted never exceeds its effective limit.     *)

\* The limit that applies to a sender under the configuration.
EffectiveLimit(sender) ==
    LET dom == SenderDomain(sender) IN
    IF dom \in DOMAIN rsw.domainList
    THEN IF IsSignedDecimal(rsw.domainList[dom])
         THEN SignedValue(rsw.domainList[dom]) ELSE 0
    ELSE rsw.defaultLimit

C2_AtomicCheckThenRecord ==
    \A t \in 1..Len(heap) :
        ~Whitelisted(heap[t].key) =>
            heap[t].count <= EffectiveLimit(heap[t].key)

----------------------------------------------------------------------------
(* C3.  Decision rule: a call for a sender that is not whitelisted returns *)
(* permit exactly when the token total after pruning at now - interval     *)
(* plus recips (0 counted as 1) is at most the effective limit, otherwise  *)
(* the defer action with the configured message; on permit the token total *)
(* is that projected value.                                                *)

C3_DecisionRule ==
    \A p \in Procs :
        LET f == frame[p]
            projected == TotalAfterPruning(f) +
                         (IF f.recips0 = 0 THEN 1 ELSE f.recips0)
        IN  (Returned(p) /\ ~Whitelisted(f.sender)) =>
                /\ IsPermit(f.result) <=> projected <= f.messagelimit
                /\ ~IsPermit(f.result) => IsDefer(f.result)
                /\ IsPermit(f.result) => heap[f.token].count = projected

\* A call is deferred because of what the sender was permitted before.
C3_Witness ==
    \E p \in Procs :
        /\ Returned(p) /\ ~Whitelisted(frame[p].sender)
        /\ IsDefer(frame[p].result)
        /\ TotalAfterPruning(frame[p]) > 0
        /\ rsw.deferMessage # ""

----------------------------------------------------------------------------
(* C4.  Denied traffic is not recorded: when a call returns defer, the     *)
(* sender's slices and total are those left by the prune step of the call  *)
(* (no slice added or increased), and no other token has changed.          *)

C4_DeniedNotRecorded ==
    \A p \in Procs :
        LET f == frame[p] IN
        (Returned(p) /\ ~IsPermit(f.result)) =>
            /\ heap[f.token].count = TotalAfterPruning(f)
            /\ heap[f.token].tsd =
                   [b \in LiveSlices(f) |-> SlicesAtCall(f)[b]]
            /\ \A t \in 1..Len(f.atCall.heap) :
                   t # f.token => heap[t] = f.atCall.heap[t]

\* A sender at its limit is deferred.
C4_Witness ==
    \E p \in Procs :
        /\ Returned(p) /\ IsDefer(frame[p].result)
        /\ ~Whitelisted(frame[p].sender)
        /\ heap[frame[p].token].count = frame[p].messagelimit
        /\ heap[frame[p].token].count > 0

----------------------------------------------------------------------------
(* C5.  Single token per key: concurrent callers of Token with the same    *)
(* key all receive the same token, only one token is ever registered for   *)
(* a key, and an existing entry is never overwritten.                      *)

C5_SingleTokenPerKey ==
    /\ \A t1, t2 \in 1..Len(heap) :
           heap[t1].key = heap[t2].key => t1 = t2
    /\ \A p, q \in Procs :
           (/\ frame[p].pc = "done" /\ frame[q].pc = "done"
            /\ frame[p].sender = frame[q].sender)
               => frame[p].token = frame[q].token

----------------------------------------------------------------------------
(* C6.  Whitelist bypass: a call for a sender whose address or domain is   *)
(* in the white list returns permit, whatever the recipient count, and     *)
(* neither the registry nor any token changes.                             *)

C6_WhitelistBypass ==
    \A p \in Procs :
        LET f == frame[p] IN
        (InCall(p) /\ Whitelisted(f.sender)) =>
            /\ f.pc = "done"
            /\ IsPermit(f.result)
            /\ heap = f.atCall.heap
            /\ rlm.tokens = f.atCall.tokens

\* A whitelisted domain, zero recipients, and tokens of other senders exist.
C6_Witness ==
    \E p \in Procs :
        /\ Returned(p)
        /\ frame[p].sender \notin DOMAIN rsw.whiteList
        /\ frame[p].domain \in DOMAIN rsw.whiteList
        /\ frame[p].recips0 = 0
        /\ Len(heap) > 0

----------------------------------------------------------------------------
(* C7.  Effective limit: for a sender that is not whitelisted the limit    *)
(* compared against is the integer stored for its domain in the domain     *)
(* list when the domain is present, 0 when that value is no integer (and   *)
(* the request is deferred), and defaultLimit when the domain is absent.   *)

C7_EffectiveLimit ==
    \A p \in Procs :
        LET f == frame[p]
            present == f.domain \in DOMAIN rsw.domainList
            v == rsw.domainList[f.domain]
        IN  (InCall(p) /\ ~Whitelisted(f.sender)) =>
                /\ (present /\ IsSignedDecimal(v))
                       => f.messagelimit = SignedValue(v)
                /\ (present /\ ~IsSignedDecimal(v))
                       => /\ f.messagelimit = 0
                          /\ f.pc \notin {"record"}
                          /\ f.pc = "done" => IsDefer(f.result)
                /\ ~present => f.messagelimit = rsw.defaultLimit

\* A request of a domain whose stored limit is no integer is deferred.
C7_Witness ==
    \E p \in Procs :
        /\ Returned(p)
        /\ frame[p].domain \in DOMAIN rsw.domainList
        /\ ~IsSignedDecimal(rsw.domainList[frame[p].domain])
        /\ IsDefer(frame[p].result)

----------------------------------------------------------------------------
(* C8.  Zero recipients: a call with recips = 0 decides and records as the *)
(* call with recips = 1 does: permit exactly when total + 1 is within the  *)
(* limit, and on permit the token total grows by exactly 1.                *)

C8_ZeroRecipients ==
    \A p \in Procs :
        LET f == frame[p] IN
        (Returned(p) /\ f.recips0 = 0) =>
            IF Whitelisted(f.sender) THEN IsPermit(f.result)
            ELSE /\ IsPermit(f.result)
                       <=> TotalAfterPruning(f) + 1 <= f.messagelimit
                 /\ IsPermit(f.result)
                       => heap[f.token].count = TotalAfterPruning(f) + 1
                 /\ ~IsPermit(f.result)
                       => /\ IsDefer(f.result)
                          /\ heap[f.token].count = TotalAfterPruning(f)

\* A permitted zero-recipient request on top of an earlier one.
C8_Witness ==
    \E p \in Procs :
        /\ Returned(p) /\ frame[p].recips0 = 0
        /\ ~Whitelisted(frame[p].sender)
        /\ IsPermit(frame[p].result)
        /\ heap[frame[p].token].count = 2

----------------------------------------------------------------------------
(* C9.  Prune and count: after RecordMessage(ts_i, n_i) calls on a fresh   *)
(* token followed by Prune(cutoff), Count() is the sum of the n_i whose    *)
(* minute-truncated timestamp is at or after the cutoff; the slices before *)
(* the cutoff are gone and the others hold what was recorded into them.    *)

\* The history is some RecordMessage calls followed by one Prune.
RecordsThenPrune ==
    /\ Len(hist) > 0
    /\ hist[Len(hist)].op = "prune"
    /\ \A i \in 1..(Len(hist) - 1) : hist[i].op = "record"

MinuteOf(ts) == ts - (ts % 60)

C9_PruneCount ==
    (RecordsThenPrune /\ heap[1].mu = 0) =>
        LET cutoff == hist[Len(hist)].lim
            kept == {i \in 1..(Len(hist) - 1) : MinuteOf(hist[i].ts) >= cutoff}
            n == [i \in kept |-> hist[i].n]
        IN  /\ Count(heap[1]) = SumOver(n, kept)
            /\ DOMAIN heap[1].tsd = {MinuteOf(hist[i].ts) : i \in kept}
            /\ \A b \in DOMAIN heap[1].tsd :
                   heap[1].tsd[b] =
                       SumOver(n, {i \in kept : MinuteOf(hist[i].ts) = b})

\* Two records, one in a slice before the cutoff and one in the slice that
\* starts at the cutoff, then the prune.
C9_Witness ==
    /\ RecordsThenPrune /\ heap[1].mu = 0
    /\ Len(hist) = 3
    /\ hist[3].lim = 60
    /\ \E i, j \in 1..2 : hist[i].ts = 59 /\ hist[j].ts = 61 /\ hist[j].n > 0

----------------------------------------------------------------------------
(* C10.  Token total: whenever no caller is inside the token's critical    *)
(* section, whatever the interleaving of the concurrent RecordMessage and  *)
(* Prune calls, the running total is the sum of the slice values.          *)

C10_TotalIsSum ==
    \A t \in 1..Len(heap) :
        heap[t].mu = 0 =>
            heap[t].count = SumOver(heap[t].tsd, DOMAIN heap[t].tsd)

\* A record and a prune have completed, a slice is live, and another caller
\* is waiting for the token.
C10_Witness ==
    /\ heap[1].mu = 0
    /\ heap[1].count > 0
    /\ \E i, j \in 1..Len(hist) : hist[i].op = "record" /\ hist[j].op = "prune"
    /\ \E p \in Procs : frame[p].pc \in {"rm_lock", "pr_lock"}

----------------------------------------------------------------------------
(* C11.  No panic, only two outcomes: in every reachable state, loggers    *)
(* set or not, interval parsed or not, domain limit parsable or not, no    *)
(* operation has panicked and every RateLimit call that has returned       *)
(* returned the permit string or the defer string.                         *)

C11_NoPanic ==
    /\ ~aborted
    /\ \A p \in Procs :
           Returned(p) => IsPermit(frame[p].result) \/ IsDefer(frame[p].result)

----------------------------------------------------------------------------
(* C12.  Reconfiguration frame: no step of SetDefaultLimit(n) changes the  *)
(* registry, a token, the history, another caller's call or a controller   *)
(* field other than defaultLimit (and the lock); when it returns           *)
(* defaultLimit is n; and every RateLimit call compares against the        *)
(* default limit in force when the call was made, so a call in flight      *)
(* keeps the old limit and only calls made afterwards use the new one.     *)

SetterPcs == {"sdl_lock", "sdl_write", "sdl_unlock"}

\* Caller p takes a step of SetDefaultLimit.
SetterStep(p) ==
    /\ frame'[p] # frame[p]
    /\ (frame[p].pc \in SetterPcs \/ frame'[p].pc \in SetterPcs)

C12_Step ==
    /\ \A p \in Procs :
           SetterStep(p) =>
               /\ heap' = heap /\ rlm' = rlm /\ hist' = hist /\ now' = now
               /\ \A q \in Procs \ {p} : frame'[q] = frame[q]
               /\ [rsw' EXCEPT !.mu = 0, !.defaultLimit = 0] =
                      [rsw EXCEPT !.mu = 0, !.defaultLimit = 0]
    /\ \A p \in Procs :
           (frame[p].pc = "sdl_unlock" /\ frame'[p].pc = "idle")
               => rsw'.defaultLimit = frame[p].l
    /\ \A p \in Procs :
           InCall(p)' =>
               frame'[p].messagelimit = frame'[p].atCall.defaultLimit

C12_ReconfigurationFrame == [][C12_Step]_vars

\* A request was permitted under the limit 120, SetDefaultLimit(1) has
\* returned, and the sender's next request is deferred under the new limit
\* with the recorded total as it was.
C12_Witness ==
    /\ Returned(1) /\ IsDefer(frame[1].result)
    /\ frame[1].messagelimit = 1
    /\ frame[2].pc = "idle" /\ rsw.defaultLimit = 1
    /\ heap[frame[1].token].count = 1
    /\ \E i \in 1..Len(hist) :
           hist[i].sender = frame[1].sender /\ hist[i].limit = DefaultLimit

----------------------------------------------------------------------------
(* C13.  Window width: with an interval I > 0 and calls executed one at a  *)
(* time, the token count a request is decided on at time now includes     *)
(* every earlier message of the sender accepted at a time T >= now - I     *)
(* and no message accepted at a time T < now - I - 1 minute.               *)

\* Recipients of the sender's messages accepted at or after time from.
RECURSIVE AcceptedSince(_, _, _)
AcceptedSince(sender, from, i) ==
    IF i = 0 THEN 0
    ELSE AcceptedSince(sender, from, i - 1) +
         (IF hist[i].sender = sender /\ hist[i].time >= from
          THEN hist[i].recips ELSE 0)

\* The call of p has counted and has not recorded yet.
Decided(p) ==
    /\ ~frame[p].direct
    /\ \/ frame[p].pc = "record"
       \/ frame[p].pc = "done" /\ IsDefer(frame[p].result)
                              /\ ~Whitelisted(frame[p].sender)

C13_WindowWidth ==
    rsw.interval < 0 =>
        \A p \in Procs :
            LET f == frame[p]
                counted == f.tcount - f.recips
            IN  Decided(p) =>
                    /\ counted >= AcceptedSince(f.sender,
                                      f.tnow + rsw.interval, Len(hist))
                    /\ counted <= AcceptedSince(f.sender,
                                      f.tnow + rsw.interval - Minute, Len(hist))

----------------------------------------------------------------------------
(* C14.  Setter/request mutual exclusion: in no reachable state are a      *)
(* setter and a RateLimit call both inside their critical sections, and    *)
(* no RateLimit call has read the configuration (the struct it works on)   *)
(* while a setter held the controller lock.                                *)

\* Caller p is between the Lock and the Unlock of a setter.
InSetter(p) == frame[p].pc \in {"sdl_write", "sdl_unlock"}

\* Caller p is between the Lock and the Unlock of RateLimit.
InRateLimit(p) ==
    /\ ~frame[p].direct
    /\ frame[p].pc \in {"token", "insert", "prune", "count", "record", "done"}

C14_SetterRequestExclusion ==
    /\ \A p, q \in Procs : ~(InSetter(p) /\ InRateLimit(q))
    /\ \A p \in Procs :
           frame[p].pc = "lock" => frame[p].self.mu = 0

----------------------------------------------------------------------------
(* C15.  Bounded buckets: with the interval fixed at I and a clock that    *)
(* never goes back, in every state reached through RateLimit calls,        *)
(* concurrent ones included, every token holds at most                     *)
(* ceil(I / 1 minute) + 1 slices.                                          *)

\* ceil(a / b) for a >= 0, b > 0
CeilDiv(a, b) == (a + b - 1) \div b

C15_BoundedBuckets ==
    \A t \in 1..Len(heap) :
        Cardinality(DOMAIN heap[t].tsd)
            <= CeilDiv(0 - rsw.interval, Minute) + 1

----------------------------------------------------------------------------
(* C16.  Interval misconfiguration is fail-closed: a controller whose      *)
(* interval is zero (SetInterval failed to parse its argument) permits     *)
(* only requests that a controller with the same limits and the interval   *)
(* 60 s, given the same timed requests, permits too.                       *)

C16_FailClosed ==
    rsw.interval = 0 =>
        \A i \in 1..Len(hist) : hist[i].permit => hist[i].twin

----------------------------------------------------------------------------
(* C17.  Deadlock freedom: under fair scheduling every started call, of    *)
(* RateLimit or of a setter, eventually returns.                           *)

C17_EveryCallReturns ==
    \A p \in Procs : (frame[p].pc # "idle") ~> (frame[p].pc = "idle")

----------------------------------------------------------------------------
(* C18.  Per-sender isolation: with calls executed one at a time, a        *)
(* RateLimit(s, n) call works on the token whose key is s, decides on      *)
(* that token's total alone, and leaves every token and registry entry of  *)
(* another sender, the other addresses of the same domain included, as     *)
(* they were when the call was made.                                       *)

C18_PerSenderIsolation ==
    \A p \in Procs :
        LET f == frame[p] IN
        (f.pc # "idle" /\ ~f.direct) =>
            /\ \A t \in 1..Len(heap) :
                   heap[t].key # f.sender =>
                       /\ t <= Len(f.atCall.heap)
                       /\ heap[t] = f.atCall.heap[t]
            /\ \A k \in DOMAIN rlm.tokens :
                   k # f.sender =>
                       /\ k \in DOMAIN f.atCall.tokens
                       /\ rlm.tokens[k] = f.atCall.tokens[k]
            /\ f.token # 0 => heap[f.token].key = f.sender
            /\ (f.pc = "record" /\ ~aborted)
                   => f.tcount = heap[f.token].count + f.recips

\* An address is permitted although another address of its domain has
\* used up the limit stored for the domain.
C18_Witness ==
    \E p \in Procs :
        /\ Returned(p) /\ IsPermit(frame[p].result)
        /\ ~Whitelisted(frame[p].sender)
        /\ frame[p].domain \in DOMAIN rsw.domainList
        /\ \E t \in 1..Len(heap) :
               /\ heap[t].key # frame[p].sender
               /\ SenderDomain(heap[t].key) = frame[p].domain
               /\ heap[t].count = frame[p].messagelimit
               /\ heap[t].count > 0

----------------------------------------------------------------------------
(* C19.  Bucket counter: whenever no caller is inside the token's critical *)
(* section, after any interleaving of RecordMessage and Prune calls,       *)
(* sliceCount is the number of slices in the token's map.                  *)

C19_SliceCount ==
    \A t \in 1..Len(heap) :
        heap[t].mu = 0 =>
            heap[t].sliceCount = Cardinality(DOMAIN heap[t].tsd)

\* Two messages of the same minute, then a prune that removes their slice.
C19_Witness ==
    /\ heap[1].mu = 0
    /\ Len(hist) = 3
    /\ hist[1].op = "record" /\ hist[2].op = "record" /\ hist[3].op = "prune"
    /\ MinuteOf(hist[1].ts) = MinuteOf(hist[2].ts)
    /\ hist[3].lim > MinuteOf(hist[1].ts)
    /\ heap[1].sliceCount = 0

----------------------------------------------------------------------------
(* C20.  Domain extraction: the domain a call uses for the white list and  *)
(* domain list lookups is everything after the first "@" of the sender,    *)
(* and the empty string when the sender has no "@".                        *)

\* The part of s after its first "@".
AfterFirstAt(s) ==
    LET i == IndexFrom(s, "@", 1) IN
    IF i = 0 THEN <<>> ELSE SubSeq(s, i + 1, Len(s))

C20_DomainExtraction ==
    \A p \in Procs :
        InCall(p) => frame[p].domain = AfterFirstAt(frame[p].sender)

====
